---- MODULE Spec2Model ----
(***************************************************************************)
(* Model of src/src/pam.py: PamAuthenticator.authenticate, the nested      *)
(* conversation callback my_conv, and the native PAM stack / libc          *)
(* allocator they drive through ctypes.                                    *)
(*                                                                         *)
(* Python str values are sequences of code points, bytes values are        *)
(* sequences of 0..255.  Only the Python 3 branch of the source is live    *)
(* (the module uses f-strings and super() without arguments).              *)
(***************************************************************************)
EXTENDS Integers, Sequences, FiniteSets, TLC

(***************************************************************************)
(* Bounds of the model.                                                    *)
(***************************************************************************)
MaxLen == 1
MaxMsgs == 2
MaxCalls == 2

(***************************************************************************)
(* Constants of the program.                                               *)
(***************************************************************************)
PAM_PROMPT_ECHO_OFF == 1
PAM_PROMPT_ECHO_ON == 2
PAM_ERROR_MSG == 3
PAM_TEXT_INFO == 4
PAM_REINITIALIZE_CRED == 8
PAM_TTY == 3
PAM_SYSTEM_ERR == 4

MsgStyles == {PAM_PROMPT_ECHO_OFF, PAM_PROMPT_ECHO_ON, PAM_ERROR_MSG, PAM_TEXT_INFO}

Threads == {1, 2}
MainThread == CHOOSE t \in Threads : \A u \in Threads : t <= u

(***************************************************************************)
(* Values the callers and the environment supply.                          *)
(* Code points: NUL, 'a', and U+0161 (two bytes in utf-8; 0x61 0x01 in     *)
(* utf-16-le).                                                             *)
(***************************************************************************)
Chars == {0, 97, 353}
Encodings == {"utf-8", "utf-16-le"}

\* result codes the native stack hands back: PAM_SUCCESS, PAM_SYSTEM_ERR,
\* PAM_AUTH_ERR
RetCodes == {0, 4, 7}

\* what an int callback result can be when the callback did not set it
GarbageInts == {0, 99}

SeqsUpTo(S, n) == UNION {[1..k -> S] : k \in 0..n}

PyStr(v) == [isstr |-> TRUE, v |-> v]
PyBytes(v) == [isstr |-> FALSE, v |-> v]

\* "a", "a\0"
Usernames == {PyStr(<<97>>), PyStr(<<97, 0>>)}
\* "login", b"login"
Services == {PyStr(<<108, 111, 103, 105, 110>>),
             PyBytes(<<108, 111, 103, 105, 110>>)}
Passwords == {PyStr(v) : v \in SeqsUpTo(Chars, MaxLen)}

\* os.environ.get('DISPLAY'): unset, "", ":0"
DisplayVals == {[set |-> FALSE, v |-> <<>>], [set |-> TRUE, v |-> <<>>],
                [set |-> TRUE, v |-> <<58, 48>>]}
\* os.ttyname(0): "/dev/tty"
TtyName == <<47, 100, 101, 118, 47, 116, 116, 121>>

\* what pam_set_item may return
SetItemCodes == {0, 4}

\* the environment of a call that has not read it
NotRead ==
    [DISPLAY |-> [set |-> FALSE, v |-> <<>>], asked |-> FALSE,
     isatty |-> FALSE]

(***************************************************************************)
(* str.encode(encoding) and bytes.decode(encoding).                        *)
(***************************************************************************)
EncodeChar(c, enc) ==
    IF enc = "utf-8"
    THEN IF c < 128 THEN <<c>>
         ELSE <<192 + (c \div 64), 128 + (c % 64)>>
    ELSE <<c % 256, c \div 256>>

RECURSIVE Encode(_, _)
Encode(s, enc) ==
    IF s = <<>> THEN <<>>
    ELSE EncodeChar(Head(s), enc) \o Encode(Tail(s), enc)

\* the isinstance(x, str) branches of authenticate
ToBytes(x, enc) == IF x.isstr THEN Encode(x.v, enc) ELSE x.v

RECURSIVE DecodeUtf8(_)
DecodeUtf8(b) ==
    IF b = <<>> THEN [ok |-> TRUE, chars |-> <<>>]
    ELSE IF Head(b) < 128
    THEN LET r == DecodeUtf8(Tail(b))
         IN  [ok |-> r.ok, chars |-> <<Head(b)>> \o r.chars]
    ELSE IF Head(b) >= 194 /\ Head(b) < 224 /\ Len(b) >= 2
            /\ b[2] >= 128 /\ b[2] < 192
    THEN LET r == DecodeUtf8(Tail(Tail(b)))
         IN  [ok |-> r.ok,
              chars |-> <<(Head(b) - 192) * 64 + (b[2] - 128)>> \o r.chars]
    ELSE [ok |-> FALSE, chars |-> <<>>]

RECURSIVE DecodeUtf16le(_)
DecodeUtf16le(b) ==
    IF b = <<>> THEN [ok |-> TRUE, chars |-> <<>>]
    ELSE IF Len(b) = 1 THEN [ok |-> FALSE, chars |-> <<>>]
    ELSE LET u == b[1] + 256 * b[2]
             r == DecodeUtf16le(Tail(Tail(b)))
         IN  IF u >= 55296 /\ u < 57344
             THEN [ok |-> FALSE, chars |-> <<>>]
             ELSE [ok |-> r.ok, chars |-> <<u>> \o r.chars]

Decode(b, enc) == IF enc = "utf-8" THEN DecodeUtf8(b) ELSE DecodeUtf16le(b)

\* a NUL test that looks at the first byte only
HasNul_FirstByteOnly(b) == b # <<>> /\ b[1] = 0

\* b'\x00' in x
HasNul(b) == \E i \in 1..Len(b) : b[i] = 0

(***************************************************************************)
(* pam_strerror of the native library: "Success", "System error",          *)
(* "Authentication failure" (ASCII bytes).                                 *)
(***************************************************************************)
pam_strerror(c) ==
    CASE c = 0 -> <<83, 117, 99, 99, 101, 115, 115>>
      [] c = 4 -> <<83, 121, 115, 116, 101, 109, 32, 101, 114, 114, 111, 114>>
      [] OTHER -> <<65, 117, 116, 104, 101, 110, 116, 105, 99, 97, 116, 105,
                    111, 110, 32, 102, 97, 105, 108, 117, 114, 101>>

(***************************************************************************)
(* Values of self.reason: None, a str literal of the source, the bytes     *)
(* pam_strerror returned, or the str they decode to.                       *)
(***************************************************************************)
NoneValue == [kind |-> "None", lit |-> "", chars |-> <<>>]
Literal(s) == [kind |-> "literal", lit |-> s, chars |-> <<>>]
BytesValue(b) == [kind |-> "bytes", lit |-> "", chars |-> b]
StrValue(c) == [kind |-> "str", lit |-> "", chars |-> c]

(***************************************************************************)
(* The native library and the attributes __init__ binds on the instance.   *)
(***************************************************************************)
RequiredSymbols == {"pam_start", "pam_acct_mgmt", "pam_set_item", "pam_setcred",
                    "pam_strerror", "pam_authenticate"}
Libraries == {RequiredSymbols, RequiredSymbols \cup {"pam_end"}}

ClassAttrs == {"code", "reason", "authenticate"}
InstanceAttrs(lib) ==
    {"calloc"} \cup (IF "pam_end" \in lib THEN {"pam_end"} ELSE {})
        \cup RequiredSymbols

\* hasattr(self, name)
HasAttr(attrs, name) == name \in attrs \cup ClassAttrs

(***************************************************************************)
(* One foreign call as the native side sees it:                            *)
(* fn(handle, arg, data) -> ret; returned is FALSE while the call is      *)
(* still inside the native stack.                                          *)
(***************************************************************************)
ForeignCall(fn, h, arg, ret, data) ==
    [fn |-> fn, handle |-> h, arg |-> arg, ret |-> ret, data |-> data,
     returned |-> TRUE]

(***************************************************************************)
(* The native heap: address -> object; an object is a PamResponse array    *)
(* (cells) or a char buffer (bytes).  Address 0 is NULL.                   *)
(***************************************************************************)
NULL == CHOOSE a \in {0} : TRUE
ResponseArray(n) ==
    [cells |-> [k \in 1..n |-> [resp |-> NULL, resp_retcode |-> 0]],
     bytes |-> <<>>]
CharBuffer(n) == [cells |-> <<>>, bytes |-> [k \in 1..n |-> 0]]

\* calloc: the lowest free address
Fresh(H) ==
    CHOOSE a \in 1..(Cardinality(DOMAIN H) + 1) :
        /\ a \notin DOMAIN H
        /\ \A b \in 1..(a - 1) : b \in DOMAIN H

Store(H, a, obj) == [x \in DOMAIN H \cup {a} |-> IF x = a THEN obj ELSE H[x]]

\* a copy that stops one byte short
Memmove_OneShort(buf, src, n) ==
    [k \in 1..Len(buf) |-> IF k < n THEN src[k] ELSE buf[k]]

\* memmove(dst, src, n)
Memmove(buf, src, n) ==
    [k \in 1..Len(buf) |-> IF k <= n THEN src[k] ELSE buf[k]]

\* The buffers an invocation of the callback obtained are gone once the
\* native stack is done with its responses: it frees what it was handed,
\* and a buffer it was never handed is unreachable and no longer tracked.
Release(H, log) ==
    LET gone == {log[k].ret : k \in 1..Len(log)}
    IN  [x \in DOMAIN H \ gone |-> H[x]]

(***************************************************************************)
(* my_conv: the loop over the messages, then the whole callback.           *)
(* ok[0] tells whether calloc of the array succeeds, ok[i] whether calloc  *)
(* of the buffer for message i does.                                       *)
(***************************************************************************)
RECURSIVE ConvLoop_SharedBuffer(_, _, _, _, _, _, _)
RECURSIVE ConvLoop(_, _, _, _, _, _, _)
\* the loop that allocates one password buffer and puts it in every
\* echo-off slot
ConvLoop_SharedBuffer(i, styles, pw, arr, ok, H, log) ==
    IF i > Len(styles) THEN [heap |-> H, exc |-> "none", log |-> log]
    ELSE IF styles[i] # PAM_PROMPT_ECHO_OFF
    THEN ConvLoop_SharedBuffer(i + 1, styles, pw, arr, ok, H, log)
    ELSE LET prior == IF arr = NULL THEN {}
                      ELSE {H[arr].cells[k].resp : k \in 1..(i - 1)} \ {NULL}
             dst == IF prior # {} THEN CHOOSE a \in prior : TRUE
                    ELSE IF ok[i] THEN Fresh(H) ELSE NULL
             H1 == IF prior = {} /\ ok[i]
                   THEN Store(H, dst, CharBuffer(Len(pw) + 1)) ELSE H
             log1 == IF prior # {} THEN log
                     ELSE Append(log, ForeignCall("calloc", 0, Len(pw) + 1,
                                                  dst, <<>>))
         IN  IF dst = NULL /\ Len(pw) > 0
             THEN [heap |-> H1, exc |-> "SIGSEGV", log |-> log1]
             ELSE LET H2 == IF dst = NULL THEN H1
                            ELSE Store(H1, dst, [H1[dst] EXCEPT !.bytes =
                                                   Memmove(@, pw, Len(pw))])
                  IN  IF arr = NULL
                      THEN [heap |-> H2, exc |-> "ValueError", log |-> log1]
                      ELSE ConvLoop_SharedBuffer(i + 1, styles, pw, arr, ok,
                              Store(H2, arr, [H2[arr] EXCEPT !.cells[i] =
                                      [resp |-> dst, resp_retcode |-> 0]]),
                              log1)

ConvLoop(i, styles, pw, arr, ok, H, log) ==
    IF i > Len(styles) THEN [heap |-> H, exc |-> "none", log |-> log]
    ELSE IF styles[i] # PAM_PROMPT_ECHO_OFF
    THEN ConvLoop(i + 1, styles, pw, arr, ok, H, log)
    ELSE LET dst == IF ok[i] THEN Fresh(H) ELSE NULL
             H1 == IF ok[i] THEN Store(H, dst, CharBuffer(Len(pw) + 1)) ELSE H
             log1 == Append(log, ForeignCall("calloc", 0, Len(pw) + 1, dst, <<>>))
         IN  IF dst = NULL /\ Len(pw) > 0
             THEN [heap |-> H1, exc |-> "SIGSEGV", log |-> log1]
             ELSE LET H2 == IF dst = NULL THEN H1
                            ELSE Store(H1, dst,
                                   [H1[dst] EXCEPT
                                      !.bytes = Memmove(@, pw, Len(pw))])
                  IN  IF arr = NULL
                      THEN [heap |-> H2, exc |-> "ValueError", log |-> log1]
                      ELSE ConvLoop(i + 1, styles, pw, arr, ok,
                                    Store(H2, arr,
                                      [H2[arr] EXCEPT
                                         !.cells[i] = [resp |-> dst,
                                                       resp_retcode |-> 0]]),
                                    log1)

my_conv(styles, pw, ok, H) ==
    LET n_messages == Len(styles)
        addr == IF ok[0] THEN Fresh(H) ELSE NULL
        H0 == IF ok[0] THEN Store(H, addr, ResponseArray(n_messages)) ELSE H
        log0 == <<ForeignCall("calloc", 0, n_messages, addr, <<>>)>>
        r == ConvLoop(1, styles, pw, addr, ok, H0, log0)
    IN  [heap |-> r.heap, p_response |-> addr, exc |-> r.exc, log |-> r.log]

NoConv == [styles |-> <<>>, p_response |-> NULL, ret |-> 0, exc |-> "none",
           log |-> <<>>]

(***************************************************************************)
(* State.  libpam, attrs, code, reason belong to the one PamAuthenticator  *)
(* object; heap and sessions to the native side; the rest are the locals   *)
(* of each caller's authenticate invocation, environ being what the        *)
(* invocation read of DISPLAY and of descriptor 0.                         *)
(***************************************************************************)
VARIABLES libpam, attrs, code, reason, heap, sessions,
          pc, username, password, service, encoding, resetcreds,
          handle, retval, auth_success, conv, calls, result,
          teardown, ncalls, environ

shared == <<libpam, attrs, code, reason, heap, sessions>>
args == <<username, password, service, encoding, resetcreds>>
locals == <<handle, retval, auth_success, conv, calls, result,
            teardown, ncalls, environ>>
vars == <<shared, args, locals, pc>>

Init ==
    /\ libpam \in Libraries
    /\ attrs = InstanceAttrs(libpam)
    /\ code = 0
    /\ reason = NoneValue
    /\ heap = <<>>
    /\ sessions = <<>>
    /\ pc = [t \in Threads |-> "idle"]
    /\ username = [t \in Threads |-> <<>>]
    /\ password = [t \in Threads |-> <<>>]
    /\ service = [t \in Threads |-> <<>>]
    /\ encoding = [t \in Threads |-> "utf-8"]
    /\ resetcreds = [t \in Threads |-> TRUE]
    /\ handle = [t \in Threads |-> 0]
    /\ retval = [t \in Threads |-> 0]
    /\ auth_success = [t \in Threads |-> FALSE]
    /\ conv = [t \in Threads |-> NoConv]
    /\ calls = [t \in Threads |-> <<>>]
    /\ result = [t \in Threads |-> "pending"]
    /\ teardown = [t \in Threads |-> 0]
    /\ ncalls = [t \in Threads |-> 0]
    /\ environ = [t \in Threads |-> NotRead]

(***************************************************************************)
(* authenticate, lines 182-205: encode the arguments, test them for NUL,   *)
(* wrap the password.                                                      *)
(***************************************************************************)
Call(t) ==
    /\ pc[t] \in {"idle", "done"}
    /\ ncalls[t] < MaxCalls
    /\ \E u \in Usernames, p \in Passwords, s \in Services,
          enc \in Encodings, rc \in BOOLEAN :
          LET ub == ToBytes(u, enc)
              pb == ToBytes(p, enc)
              sb == ToBytes(s, enc)
          IN  /\ username' = [username EXCEPT ![t] = ub]
              /\ password' = [password EXCEPT ![t] = pb]
              /\ service' = [service EXCEPT ![t] = sb]
              /\ encoding' = [encoding EXCEPT ![t] = enc]
              /\ resetcreds' = [resetcreds EXCEPT ![t] = rc]
              /\ pc' = [pc EXCEPT ![t] =
                          IF HasNul(ub) \/ HasNul(pb) \/ HasNul(sb)
                          THEN "nul_code" ELSE "pam_start"]
    /\ ncalls' = [ncalls EXCEPT ![t] = @ + 1]
    /\ handle' = [handle EXCEPT ![t] = 0]
    /\ retval' = [retval EXCEPT ![t] = 0]
    /\ auth_success' = [auth_success EXCEPT ![t] = FALSE]
    /\ conv' = [conv EXCEPT ![t] = NoConv]
    /\ calls' = [calls EXCEPT ![t] = <<>>]
    /\ result' = [result EXCEPT ![t] = "pending"]
    /\ teardown' = [teardown EXCEPT ![t] = 0]
    /\ environ' = [environ EXCEPT ![t] = NotRead]
    /\ UNCHANGED shared

\* line 199
NulCode(t) ==
    /\ pc[t] = "nul_code"
    /\ code' = PAM_SYSTEM_ERR
    /\ pc' = [pc EXCEPT ![t] = "nul_reason"]
    /\ UNCHANGED <<libpam, attrs, reason, heap, sessions, args, locals>>

\* the rejection that stores the code and leaves reason as it was
NulReason_Skipped(t) ==
    /\ pc[t] = "nul_reason"
    /\ result' = [result EXCEPT ![t] = "False"]
    /\ pc' = [pc EXCEPT ![t] = "done"]
    /\ UNCHANGED <<libpam, attrs, code, reason, heap, sessions, args,
                   handle, retval, auth_success, conv, calls,
                   teardown, ncalls, environ>>

\* lines 200-201
NulReason(t) ==
    /\ pc[t] = "nul_reason"
    /\ reason' = Literal("strings may not contain NUL")
    /\ result' = [result EXCEPT ![t] = "False"]
    /\ pc' = [pc EXCEPT ![t] = "done"]
    /\ UNCHANGED <<libpam, attrs, code, heap, sessions, args,
                   handle, retval, auth_success, conv, calls,
                   teardown, ncalls, environ>>

Log(t, entry) == [calls EXCEPT ![t] = Append(@, entry)]

\* pam_start whose result is not tested: the call goes on to the TTY item
PamStart_Unchecked(t) ==
    /\ pc[t] = "pam_start"
    /\ \E rv \in RetCodes :
          LET h == IF rv = 0 THEN Cardinality(DOMAIN sessions) + 1 ELSE 0
          IN  /\ retval' = [retval EXCEPT ![t] = rv]
              /\ handle' = [handle EXCEPT ![t] = h]
              /\ sessions' = IF rv = 0 THEN Store(sessions, h, "open")
                             ELSE sessions
              /\ calls' = Log(t, ForeignCall("pam_start", 0, 0, rv,
                                             <<service[t], username[t]>>))
              /\ pc' = [pc EXCEPT ![t] = "tty"]
    /\ UNCHANGED <<libpam, attrs, code, reason, heap, args,
                   auth_success, conv, result, teardown, ncalls, environ>>

\* lines 207-211: handle = PamHandle(); retval = self.pam_start(...);
\* if retval != 0
PamStart(t) ==
    /\ pc[t] = "pam_start"
    /\ \E rv \in RetCodes :
          LET h == IF rv = 0 THEN Cardinality(DOMAIN sessions) + 1 ELSE 0
          IN  /\ retval' = [retval EXCEPT ![t] = rv]
              /\ handle' = [handle EXCEPT ![t] = h]
              /\ sessions' = IF rv = 0 THEN Store(sessions, h, "open")
                             ELSE sessions
              /\ calls' = Log(t, ForeignCall("pam_start", 0, 0, rv,
                                             <<service[t], username[t]>>))
              /\ pc' = [pc EXCEPT ![t] =
                          IF rv # 0 THEN "start_fail_code" ELSE "tty"]
    /\ UNCHANGED <<libpam, attrs, code, reason, heap, args,
                   auth_success, conv, result, teardown, ncalls, environ>>

\* lines 211-214
StartFailCode(t) ==
    /\ pc[t] = "start_fail_code"
    /\ code' = retval[t]
    /\ pc' = [pc EXCEPT ![t] = "start_fail_reason"]
    /\ UNCHANGED <<libpam, attrs, reason, heap, sessions, args, locals>>

\* lines 215-216
StartFailReason(t) ==
    /\ pc[t] = "start_fail_reason"
    /\ reason' = Literal("pam_start() failed")
    /\ result' = [result EXCEPT ![t] = "False"]
    /\ pc' = [pc EXCEPT ![t] = "done"]
    /\ UNCHANGED <<libpam, attrs, code, heap, sessions, args,
                   handle, retval, auth_success, conv, calls,
                   teardown, ncalls, environ>>

\* lines 232-234: DISPLAY if set and non-empty, else the tty name of
\* descriptor 0 if it is a terminal, else nothing (an empty value is falsy)
ChooseTty(display, isatty) ==
    IF display.set /\ display.v # <<>> THEN display.v
    ELSE IF isatty THEN TtyName
    ELSE <<>>

\* what the call read of the process environment: os.isatty(0) is asked
\* (line 233) only when DISPLAY gave nothing
Environment(display, isatty) ==
    [DISPLAY |-> display,
     asked |-> ~(display.set /\ display.v # <<>>),
     isatty |-> isatty /\ ~(display.set /\ display.v # <<>>)]

\* lines 232-238 with the return value of pam_set_item tested, the call
\* given up when it is not 0
SetTTY_Checked(t) ==
    /\ pc[t] = "tty"
    /\ \E display \in DisplayVals, isatty \in BOOLEAN, rv \in SetItemCodes :
          LET ctty == ChooseTty(display, isatty)
          IN  /\ environ' = [environ EXCEPT ![t] =
                                Environment(display, isatty)]
              /\ IF ctty # <<>>
                 THEN /\ calls' = Log(t, ForeignCall("pam_set_item",
                                        handle[t], PAM_TTY, rv,
                                        Encode(ctty, encoding[t])))
                      /\ retval' = [retval EXCEPT ![t] = rv]
                      /\ pc' = [pc EXCEPT ![t] =
                                  IF rv = 0 THEN "pam_authenticate"
                                  ELSE "store_code"]
                 ELSE /\ rv = 0
                      /\ pc' = [pc EXCEPT ![t] = "pam_authenticate"]
                      /\ UNCHANGED <<calls, retval>>
    /\ UNCHANGED <<shared, args, handle, auth_success, conv,
                   result, teardown, ncalls>>

\* lines 232-238: the return value of pam_set_item is dropped
SetTTY(t) ==
    /\ pc[t] = "tty"
    /\ \E display \in DisplayVals, isatty \in BOOLEAN, rv \in SetItemCodes :
          LET ctty == ChooseTty(display, isatty)
          IN  /\ environ' = [environ EXCEPT ![t] =
                                Environment(display, isatty)]
              /\ IF ctty # <<>>
                 THEN calls' = Log(t, ForeignCall("pam_set_item",
                                        handle[t], PAM_TTY, rv,
                                        Encode(ctty, encoding[t])))
                 ELSE /\ rv = 0
                      /\ UNCHANGED calls
    /\ pc' = [pc EXCEPT ![t] = "pam_authenticate"]
    /\ UNCHANGED <<shared, args, handle, retval, auth_success, conv,
                   result, teardown, ncalls>>

\* line 240: the call enters the native stack
PamAuthenticate(t) ==
    /\ pc[t] = "pam_authenticate"
    /\ calls' = Log(t, [ForeignCall("pam_authenticate", handle[t], 0, 0, <<>>)
                           EXCEPT !.returned = FALSE])
    /\ pc' = [pc EXCEPT ![t] = "in_authenticate"]
    /\ UNCHANGED <<shared, args, handle, retval, auth_success, conv,
                   result, teardown, ncalls, environ>>

\* lines 165-179: the native stack, inside pam_authenticate, invokes the
\* callback with a batch of messages, any number of times.  A fault raised
\* by ctypes' NULL check leaves the callback's result unset; a write through
\* NULL kills the process.
MyConv(t) ==
    /\ pc[t] = "in_authenticate"
    /\ conv[t] = NoConv
    /\ \E styles \in SeqsUpTo(MsgStyles, MaxMsgs),
          ok \in [0..MaxMsgs -> BOOLEAN] :
          /\ \A i \in 1..MaxMsgs :
                (i > Len(styles) \/ styles[i] # PAM_PROMPT_ECHO_OFF) => ok[i]
          /\ LET r == my_conv(styles, password[t], ok, heap)
             IN  /\ heap' = r.heap
                 /\ \E ret \in (IF r.exc = "ValueError" THEN GarbageInts
                                ELSE {0}) :
                       conv' = [conv EXCEPT ![t] =
                                  [styles |-> styles,
                                   p_response |-> r.p_response,
                                   ret |-> ret, exc |-> r.exc, log |-> r.log]]
                 /\ IF r.exc = "SIGSEGV"
                    THEN /\ pc' = [u \in Threads |-> "crashed"]
                         /\ result' = [result EXCEPT ![t] = "SIGSEGV"]
                    ELSE UNCHANGED <<pc, result>>
    /\ UNCHANGED <<libpam, attrs, code, reason, sessions, args,
                   handle, retval, auth_success, calls, teardown, ncalls,
                   environ>>

\* the native stack reads the responses it was handed and frees them
ConvConsume(t) ==
    /\ pc[t] = "in_authenticate"
    /\ conv[t] # NoConv
    /\ heap' = Release(heap, conv[t].log)
    /\ conv' = [conv EXCEPT ![t] = NoConv]
    /\ UNCHANGED <<libpam, attrs, code, reason, sessions, args,
                   handle, retval, auth_success, calls, result,
                   teardown, ncalls, environ, pc>>

\* pam_authenticate called again after a failure
AuthReturn_Retry(t) ==
    /\ pc[t] = "in_authenticate"
    /\ conv[t] = NoConv
    /\ \E rv \in RetCodes :
          /\ retval' = [retval EXCEPT ![t] = rv]
          /\ auth_success' = [auth_success EXCEPT ![t] = (rv = 0)]
          /\ calls' = [calls EXCEPT ![t][Len(calls[t])] =
                          [@ EXCEPT !.ret = rv, !.returned = TRUE]]
          /\ pc' = [pc EXCEPT ![t] =
                      IF rv = 0 THEN "acct" ELSE "pam_authenticate"]
    /\ UNCHANGED <<shared, args, handle, conv, result, teardown, ncalls,
                   environ>>

\* lines 240-241: pam_authenticate returns
AuthReturn(t) ==
    /\ pc[t] = "in_authenticate"
    /\ conv[t] = NoConv
    /\ \E rv \in RetCodes :
          /\ retval' = [retval EXCEPT ![t] = rv]
          /\ auth_success' = [auth_success EXCEPT ![t] = (rv = 0)]
          /\ calls' = [calls EXCEPT ![t][Len(calls[t])] =
                          [@ EXCEPT !.ret = rv, !.returned = TRUE]]
    /\ pc' = [pc EXCEPT ![t] = "acct"]
    /\ UNCHANGED <<shared, args, handle, conv, result, teardown, ncalls,
                   environ>>

\* lines 243-245
PamAcctMgmt(t) ==
    /\ pc[t] = "acct"
    /\ \E rv \in RetCodes :
          IF auth_success[t]
          THEN /\ retval' = [retval EXCEPT ![t] = rv]
               /\ auth_success' = [auth_success EXCEPT ![t] = (rv = 0)]
               /\ calls' = Log(t, ForeignCall("pam_acct_mgmt", handle[t],
                                              0, rv, <<>>))
          ELSE UNCHANGED <<retval, auth_success, calls>>
    /\ pc' = [pc EXCEPT ![t] = "setcred"]
    /\ UNCHANGED <<shared, args, handle, conv, result, teardown,
                   ncalls, environ>>

\* lines 247-248
PamSetcred(t) ==
    /\ pc[t] = "setcred"
    /\ \E rv \in RetCodes :
          IF auth_success[t] /\ resetcreds[t]
          THEN /\ retval' = [retval EXCEPT ![t] = rv]
               /\ calls' = Log(t, ForeignCall("pam_setcred", handle[t],
                                              PAM_REINITIALIZE_CRED, rv, <<>>))
          ELSE UNCHANGED <<retval, calls>>
    /\ pc' = [pc EXCEPT ![t] = "store_code"]
    /\ UNCHANGED <<shared, args, handle, auth_success, conv, result,
                   teardown, ncalls, environ>>

\* line 251
StoreCode(t) ==
    /\ pc[t] = "store_code"
    /\ code' = retval[t]
    /\ pc' = [pc EXCEPT ![t] = "strerror"]
    /\ UNCHANGED <<libpam, attrs, reason, heap, sessions, args, locals>>

\* the error string of code 0 asked for, whatever the final code is
StrError_OfSuccess(t) ==
    /\ pc[t] = "strerror"
    /\ reason' = BytesValue(pam_strerror(0))
    /\ calls' = Log(t, ForeignCall("pam_strerror", handle[t], 0, 0,
                                  pam_strerror(0)))
    /\ pc' = [pc EXCEPT ![t] = "decode"]
    /\ UNCHANGED <<libpam, attrs, code, heap, sessions, args,
                   handle, retval, auth_success, conv, result,
                   teardown, ncalls, environ>>

\* line 252
StrError(t) ==
    /\ pc[t] = "strerror"
    /\ reason' = BytesValue(pam_strerror(retval[t]))
    /\ calls' = Log(t, ForeignCall("pam_strerror", handle[t], retval[t], 0,
                                  pam_strerror(retval[t])))
    /\ pc' = [pc EXCEPT ![t] = "decode"]
    /\ UNCHANGED <<libpam, attrs, code, heap, sessions, args,
                   handle, retval, auth_success, conv, result,
                   teardown, ncalls, environ>>

\* lines 253-254: bytes.decode raises UnicodeDecodeError on malformed input
DecodeReason(t) ==
    /\ pc[t] = "decode"
    /\ LET d == Decode(reason.chars, encoding[t])
       IN  IF d.ok
           THEN /\ reason' = StrValue(d.chars)
                /\ pc' = [pc EXCEPT ![t] = "teardown"]
                /\ UNCHANGED result
           ELSE /\ result' = [result EXCEPT ![t] = "UnicodeDecodeError"]
                /\ pc' = [pc EXCEPT ![t] = "done"]
                /\ UNCHANGED reason
    /\ UNCHANGED <<libpam, attrs, code, heap, sessions, args,
                   handle, retval, auth_success, conv, calls,
                   teardown, ncalls, environ>>

\* lines 256-259: self.libpam is looked up on the instance (AttributeError
\* when it has no such attribute); pam_end is called if the library has it;
\* return auth_success
Teardown(t) ==
    /\ pc[t] = "teardown"
    /\ IF ~HasAttr(attrs, "libpam")
       THEN /\ result' = [result EXCEPT ![t] = "AttributeError"]
            /\ UNCHANGED <<calls, sessions, teardown>>
       ELSE /\ IF "pam_end" \in libpam
               THEN /\ calls' = Log(t, ForeignCall("pam_end", handle[t],
                                                   retval[t], 0, <<>>))
                    /\ sessions' = [sessions EXCEPT ![handle[t]] = "ended"]
               ELSE UNCHANGED <<calls, sessions>>
            /\ teardown' = [teardown EXCEPT ![t] = @ + 1]
            /\ result' = [result EXCEPT ![t] =
                            IF auth_success[t] THEN "True" ELSE "False"]
    /\ pc' = [pc EXCEPT ![t] = "done"]
    /\ UNCHANGED <<libpam, attrs, code, reason, heap, args,
                   handle, retval, auth_success, conv, ncalls, environ>>

\* one step of the authenticate invocation of caller t
authenticate(t) ==
    \/ Call(t)
    \/ NulCode(t)
    \/ NulReason(t)
    \/ PamStart(t)
    \/ StartFailCode(t)
    \/ StartFailReason(t)
    \/ SetTTY(t)
    \/ PamAuthenticate(t)
    \/ MyConv(t)
    \/ ConvConsume(t)
    \/ AuthReturn(t)
    \/ PamAcctMgmt(t)
    \/ PamSetcred(t)
    \/ StoreCode(t)
    \/ StrError(t)
    \/ DecodeReason(t)
    \/ Teardown(t)

\* calls are made one after another by a single caller
Next == authenticate(MainThread)

Spec == Init /\ [][Next]_vars

(***************************************************************************)
(* Two threads calling authenticate on the same PamAuthenticator object,   *)
(* their steps interleaved.  Each thread makes one call, in utf-8 with the *)
(* password "a", with no DISPLAY and no terminal; the native stack sends   *)
(* at most one message per callback and calloc does not fail.              *)
(***************************************************************************)
OneCallEach ==
    \A t \in Threads :
        /\ ncalls[t] <= 1
        /\ encoding[t] = "utf-8"
        /\ pc[t] # "idle" => password[t] = <<97>>
        /\ Len(conv[t].styles) <= 1
        /\ \A k \in 1..Len(conv[t].log) : conv[t].log[k].ret # NULL
        /\ ~environ[t].DISPLAY.set /\ ~environ[t].isatty

NextConc ==
    \E t \in Threads :
        \/ Call(t) /\ OneCallEach'
        \/ NulCode(t)
        \/ NulReason(t)
        \/ PamStart(t)
        \/ StartFailCode(t)
        \/ StartFailReason(t)
        \/ SetTTY(t) /\ OneCallEach'
        \/ PamAuthenticate(t)
        \/ MyConv(t) /\ OneCallEach'
        \/ ConvConsume(t)
        \/ AuthReturn(t)
        \/ PamAcctMgmt(t)
        \/ PamSetcred(t)
        \/ StoreCode(t)
        \/ StrError(t)
        \/ DecodeReason(t)
        \/ Teardown(t)
SpecConc == Init /\ [][NextConc]_vars

(***************************************************************************)
(* Vocabulary of the claims.                                               *)
(***************************************************************************)
\* the invocation of caller t has ended, by a return or by an exception
Finished(t) == pc[t] = "done"

\* the bytes hold a NUL byte
ContainsNul(b) == 0 \in {b[i] : i \in DOMAIN b}

\* the call of t was made with a NUL in one of its encoded arguments
NulInArgs(t) ==
    /\ ncalls[t] > 0
    /\ ContainsNul(username[t]) \/ ContainsNul(password[t])
          \/ ContainsNul(service[t])

\* the positions of the calls to fn in a log
Entries(log, fn) == {i \in 1..Len(log) : log[i].fn = fn}
ReachedStart(t) == Entries(calls[t], "pam_start") # {}

Phases == {"pam_start", "pam_authenticate", "pam_acct_mgmt", "pam_setcred"}

\* every phase the call has made so far has returned 0
AllPhasesZero(t) ==
    \A i \in 1..Len(calls[t]) :
        calls[t][i].fn \in Phases =>
            calls[t][i].returned /\ calls[t][i].ret = 0

\* the log holds a call to fn
Called(log, fn) == \E i \in 1..Len(log) : log[i].fn = fn

(***************************************************************************)
(* C1: in every authenticate call that reaches pam_start, on every branch, *)
(* session teardown (pam_end, or the no-op taken when the library has no   *)
(* pam_end) has run exactly once when the call finishes.                   *)
(***************************************************************************)
C1_TeardownExactlyOnce ==
    \A t \in Threads :
        (Finished(t) /\ ReachedStart(t)) => teardown[t] = 1

(***************************************************************************)
(* C2: a call whose encoded username, password or service holds a NUL byte *)
(* makes no foreign call at any point, and ends returning False with       *)
(* code 4 and the fixed reason.                                            *)
(***************************************************************************)
C2_NulRejectedWithoutForeignCall ==
    \A t \in Threads :
        NulInArgs(t) =>
            /\ calls[t] = <<>>
            /\ conv[t] = NoConv
            /\ heap = <<>>
            /\ handle[t] = 0
            /\ pc[t] \in {"nul_code", "nul_reason", "done"}
            /\ Finished(t) =>
                  /\ result[t] = "False"
                  /\ code = 4
                  /\ reason = Literal("strings may not contain NUL")

\* a call rejected because the encoding put a NUL into the username "a"
C2_Witness ==
    \E t \in Threads :
        /\ Finished(t)
        /\ encoding[t] = "utf-16-le"
        /\ username[t] = <<97, 0>>
        /\ ~ContainsNul(service[t]) /\ ~ContainsNul(password[t])
        /\ result[t] = "False" /\ code = 4

(***************************************************************************)
(* C3: every authenticate call ends by returning a boolean, with code and  *)
(* reason populated, and never by a raised exception.                      *)
(***************************************************************************)
C3_ErrorsReturnedAsData ==
    \A t \in Threads :
        Finished(t) =>
            /\ result[t] \in {"True", "False"}
            /\ reason.kind \in {"literal", "str"}

\* the value some call to fn in the log of t returned
ReturnOf(t, fn) ==
    LET i == CHOOSE i \in Entries(calls[t], fn) : TRUE IN calls[t][i].ret
HasReturned(t, fn) ==
    \E i \in Entries(calls[t], fn) : calls[t][i].returned

\* the str an ASCII error string of the native library reads as
ErrorString(c) == StrValue(pam_strerror(c))

(***************************************************************************)
(* C4: when pam_start, pam_authenticate, pam_acct_mgmt and pam_setcred all *)
(* return 0, authenticate returns True, and code is 0 and reason the       *)
(* native error string of 0.                                               *)
(***************************************************************************)
C4_AllZeroReturnsTrue ==
    \A t \in Threads :
        (Finished(t) /\ ReachedStart(t) /\ AllPhasesZero(t)) =>
            /\ result[t] = "True"
            /\ code = 0
            /\ reason = ErrorString(0)

(***************************************************************************)
(* C5: when pam_authenticate returns non-zero, pam_acct_mgmt and           *)
(* pam_setcred are never invoked in that call, and the call returns False  *)
(* with code equal to that return value.                                   *)
(***************************************************************************)
C5_AuthFailureSkipsLaterPhases ==
    \A t \in Threads :
        (HasReturned(t, "pam_authenticate")
            /\ ReturnOf(t, "pam_authenticate") # 0) =>
            /\ ~Called(calls[t], "pam_acct_mgmt")
            /\ ~Called(calls[t], "pam_setcred")
            /\ Finished(t) =>
                  /\ result[t] = "False"
                  /\ code = ReturnOf(t, "pam_authenticate")

(***************************************************************************)
(* C6: when pam_authenticate and pam_acct_mgmt return 0, resetcreds is     *)
(* true and pam_setcred returns non-zero, authenticate returns True while  *)
(* code is the pam_setcred return value and reason its error string.       *)
(***************************************************************************)
C6_ResetFailureKeepsSuccess ==
    \A t \in Threads :
        (Finished(t) /\ resetcreds[t] /\ Called(calls[t], "pam_setcred")
            /\ ReturnOf(t, "pam_setcred") # 0) =>
            /\ ReturnOf(t, "pam_authenticate") = 0
            /\ ReturnOf(t, "pam_acct_mgmt") = 0
            /\ result[t] = "True"
            /\ code = ReturnOf(t, "pam_setcred")
            /\ reason = ErrorString(ReturnOf(t, "pam_setcred"))

(***************************************************************************)
(* C7: the foreign phases of one call occur in the order pam_start,        *)
(* pam_set_item, pam_authenticate, pam_acct_mgmt, pam_setcred, pam_end,    *)
(* each after the earlier one returned, and on a run where every phase     *)
(* returned 0 only the TTY item and the credential reset may be skipped.   *)
(***************************************************************************)
Rank(fn) ==
    CASE fn = "pam_start" -> 1
      [] fn = "pam_set_item" -> 2
      [] fn = "pam_authenticate" -> 3
      [] fn = "pam_acct_mgmt" -> 4
      [] fn = "pam_setcred" -> 5
      [] fn = "pam_strerror" -> 6
      [] OTHER -> 7

InPhaseOrder(log) ==
    \A i, j \in 1..Len(log) :
        i < j => (Rank(log[i].fn) < Rank(log[j].fn) /\ log[i].returned)

C7_PhasesInOrderNoneSkipped ==
    \A t \in Threads :
        /\ InPhaseOrder(calls[t])
        /\ (Finished(t) /\ ReachedStart(t) /\ AllPhasesZero(t)) =>
              /\ Called(calls[t], "pam_authenticate")
              /\ Called(calls[t], "pam_acct_mgmt")
              /\ teardown[t] = 1
              /\ ("pam_end" \in libpam => Called(calls[t], "pam_end"))

(***************************************************************************)
(* C8: when my_conv has run on N messages (its allocations served), it     *)
(* returns 0 and hands back an array of exactly N responses in message     *)
(* order: a PAM_PROMPT_ECHO_OFF message gets a buffer holding exactly the  *)
(* password bytes with status 0, any other message gets no response and    *)
(* status 0.                                                               *)
(***************************************************************************)
AllocationsServed(c) == \A k \in 1..Len(c.log) : c.log[k].ret # NULL

C8_ConversationResponses ==
    \A t \in Threads :
        (conv[t] # NoConv /\ AllocationsServed(conv[t])) =>
            LET c == conv[t]
                N == Len(c.styles)
            IN  /\ c.exc = "none"
                /\ c.ret = 0
                /\ c.p_response \in DOMAIN heap
                /\ Len(heap[c.p_response].cells) = N
                /\ \A i \in 1..N :
                      LET cell == heap[c.p_response].cells[i]
                      IN  /\ cell.resp_retcode = 0
                          /\ IF c.styles[i] = 1
                             THEN /\ cell.resp \in DOMAIN heap
                                  /\ LET buf == heap[cell.resp].bytes
                                     IN  /\ Len(buf) = Len(password[t]) + 1
                                         /\ SubSeq(buf, 1, Len(password[t]))
                                               = password[t]
                                         /\ buf[Len(buf)] = 0
                             ELSE cell.resp = 0

\* the callback answered a batch of an echo-off prompt and another message
\* with a password of two bytes
C8_Witness ==
    \E t \in Threads :
        /\ conv[t] # NoConv /\ AllocationsServed(conv[t])
        /\ Len(conv[t].styles) = 2
        /\ conv[t].styles[1] # 1 /\ conv[t].styles[2] = 1
        /\ Len(password[t]) = 2
        /\ conv[t].p_response # 0

(***************************************************************************)
(* C9: when pam_start returns retval # 0, no other foreign call is made in *)
(* that call (no pam_set_item, pam_authenticate, pam_acct_mgmt,            *)
(* pam_setcred, and no second pam_start), no session is left to the call,  *)
(* and it returns False with code = retval and reason "pam_start() failed".*)
(***************************************************************************)
C9_StartFailure ==
    \A t \in Threads :
        (ReachedStart(t) /\ ReturnOf(t, "pam_start") # 0) =>
            /\ Len(calls[t]) = 1
            /\ conv[t] = NoConv
            /\ handle[t] = 0
            /\ pc[t] \in {"start_fail_code", "start_fail_reason", "done"}
            /\ Finished(t) =>
                  /\ result[t] = "False"
                  /\ code = ReturnOf(t, "pam_start")
                  /\ reason = Literal("pam_start() failed")

C9_Witness ==
    \E t \in Threads :
        /\ Finished(t)
        /\ ReachedStart(t) /\ ReturnOf(t, "pam_start") = 7
        /\ result[t] = "False" /\ code = 7

(***************************************************************************)
(* C10: after a successful pam_start, a library without pam_end makes      *)
(* teardown a no-op and the call returns the outcome of the earlier        *)
(* phases; a library with pam_end has it called with the session handle    *)
(* and the final result code.                                              *)
(***************************************************************************)
C10_OptionalPamEnd ==
    \A t \in Threads :
        (Finished(t) /\ ReachedStart(t) /\ ReturnOf(t, "pam_start") = 0) =>
            IF "pam_end" \in libpam
            THEN \E i \in Entries(calls[t], "pam_end") :
                    /\ calls[t][i].handle = handle[t]
                    /\ calls[t][i].arg = retval[t]
            ELSE /\ ~Called(calls[t], "pam_end")
                 /\ result[t] = IF auth_success[t] THEN "True" ELSE "False"

(***************************************************************************)
(* C11: when a call that pam_start gave a session ends by a raised         *)
(* exception, the session has been torn down before the call is left:      *)
(* the teardown step has run, and pam_end was invoked if the library has   *)
(* it.                                                                     *)
(***************************************************************************)
Raised(t) == Finished(t) /\ result[t] \notin {"True", "False"}

C11_FaultPathTeardown ==
    \A t \in Threads :
        (Raised(t) /\ ReachedStart(t) /\ ReturnOf(t, "pam_start") = 0) =>
            /\ teardown[t] = 1
            /\ "pam_end" \in libpam =>
                  /\ Called(calls[t], "pam_end")
                  /\ sessions[handle[t]] = "ended"

(***************************************************************************)
(* C13: pam_setcred is invoked exactly when resetcreds is true and both    *)
(* pam_authenticate and pam_acct_mgmt returned 0; when it is not invoked   *)
(* the stored code is the return value of the last phase that ran: a       *)
(* non-zero pam_acct_mgmt gives False with that code, and resetcreds false *)
(* with both phases 0 gives True with code 0.                              *)
(***************************************************************************)
PastSetcred(t) ==
    /\ HasReturned(t, "pam_authenticate")
    /\ pc[t] \in {"store_code", "strerror", "decode", "teardown", "done"}

SetcredDue(t) ==
    /\ resetcreds[t]
    /\ ReturnOf(t, "pam_authenticate") = 0
    /\ Called(calls[t], "pam_acct_mgmt")
    /\ ReturnOf(t, "pam_acct_mgmt") = 0

\* the return value of the last phase the call made
LastPhaseReturn(t) ==
    LET last == CHOOSE i \in 1..Len(calls[t]) :
                    /\ calls[t][i].fn \in Phases
                    /\ \A j \in 1..Len(calls[t]) :
                          calls[t][j].fn \in Phases => j <= i
    IN  calls[t][last].ret

C13_CredentialResetGating ==
    \A t \in Threads :
        PastSetcred(t) =>
            /\ Called(calls[t], "pam_setcred") <=> SetcredDue(t)
            /\ (Finished(t) /\ ~Called(calls[t], "pam_setcred")) =>
                  /\ code = LastPhaseReturn(t)
                  /\ (Called(calls[t], "pam_acct_mgmt")
                         /\ ReturnOf(t, "pam_acct_mgmt") # 0) =>
                        /\ result[t] = "False"
                        /\ code = ReturnOf(t, "pam_acct_mgmt")
                  /\ (~resetcreds[t]
                         /\ ReturnOf(t, "pam_authenticate") = 0
                         /\ Called(calls[t], "pam_acct_mgmt")
                         /\ ReturnOf(t, "pam_acct_mgmt") = 0) =>
                        /\ result[t] = "True"
                        /\ code = 0

(***************************************************************************)
(* C14: once the last phase is over, reason is what pam_strerror gave for  *)
(* the final code, asked with the handle of the call's own session while   *)
(* that session is open and so before any pam_end; and every foreign call  *)
(* that takes the handle is made after pam_start returned 0 and before any *)
(* pam_end, with the handle pam_start filled in.                           *)
(***************************************************************************)
UsesHandle ==
    {"pam_set_item", "pam_authenticate", "pam_acct_mgmt", "pam_setcred",
     "pam_strerror"}

\* entry i of the log is made on a session that is started and not ended
OnLiveSession(log, i) ==
    /\ \E j \in 1..(i - 1) : log[j].fn = "pam_start" /\ log[j].ret = 0
    /\ \A j \in 1..(i - 1) : log[j].fn # "pam_end"

\* what reason may hold of the error string of c: the bytes the library
\* returned, or those bytes decoded with the call's encoding
ResolvedReason(c, enc) ==
    {BytesValue(pam_strerror(c))}
        \cup {StrValue(Decode(pam_strerror(c), enc).chars)}

C14_ErrorStringAndHandleValidity ==
    \A t \in Threads :
        /\ \A i \in 1..Len(calls[t]) :
              calls[t][i].fn \in UsesHandle =>
                  /\ OnLiveSession(calls[t], i)
                  /\ calls[t][i].handle = handle[t]
                  /\ handle[t] \in DOMAIN sessions
                  /\ (~Called(calls[t], "pam_end")) =>
                        sessions[handle[t]] = "open"
        /\ \A i \in Entries(calls[t], "pam_strerror") :
              /\ calls[t][i].arg = retval[t]
              /\ calls[t][i].arg = LastPhaseReturn(t)
              /\ code = retval[t]
              /\ reason \in ResolvedReason(retval[t], encoding[t])
              /\ pc[t] \in {"teardown", "done"} =>
                    (reason.kind = "str" \/ Raised(t))

\* the error string of a failed account check is stored, decoded, while the
\* session is still open
C14_Witness ==
    \E t \in Threads :
        /\ pc[t] = "teardown"
        /\ Called(calls[t], "pam_acct_mgmt")
        /\ ReturnOf(t, "pam_acct_mgmt") = 7
        /\ code = 7 /\ reason = ErrorString(7)
        /\ sessions[handle[t]] = "open"

(***************************************************************************)
(* C15: pam_set_item(PAM_TTY) is invoked at most once per call, after      *)
(* pam_start returned 0 and before pam_authenticate, with DISPLAY if it is *)
(* set and not empty and else with the terminal name of descriptor 0, and  *)
(* only when one of the two is there; when neither is, the item is not set *)
(* and the call goes on to pam_authenticate; and whatever pam_set_item     *)
(* returns, pam_authenticate is called next and the outcome of the call is *)
(* that of the phases.                                                     *)
(***************************************************************************)
HasDisplay(e) == e.DISPLAY.set /\ e.DISPLAY.v # <<>>

\* the call is past lines 232-238
PastTty(t) ==
    /\ ReachedStart(t) /\ ReturnOf(t, "pam_start") = 0
    /\ pc[t] # "tty"

C15_TtyAssociation ==
    \A t \in Threads :
        /\ Cardinality(Entries(calls[t], "pam_set_item")) <= 1
        /\ \A i \in Entries(calls[t], "pam_set_item") :
              /\ OnLiveSession(calls[t], i)
              /\ \A j \in 1..(i - 1) : calls[t][j].fn # "pam_authenticate"
              /\ calls[t][i].handle = handle[t]
              /\ calls[t][i].arg = PAM_TTY
              /\ HasDisplay(environ[t]) \/ environ[t].isatty
              /\ calls[t][i].data =
                    Encode(IF HasDisplay(environ[t])
                           THEN environ[t].DISPLAY.v ELSE TtyName,
                           encoding[t])
        /\ PastTty(t) =>
              /\ environ[t].asked = ~HasDisplay(environ[t])
              /\ Called(calls[t], "pam_set_item")
                    <=> (HasDisplay(environ[t]) \/ environ[t].isatty)
              /\ pc[t] = "pam_authenticate" =>
                    (result[t] = "pending" /\ retval[t] = 0)
              /\ pc[t] \notin {"pam_authenticate", "crashed"} =>
                    /\ Called(calls[t], "pam_authenticate")
                    /\ HasReturned(t, "pam_authenticate") =>
                          auth_success[t]
                              = (ReturnOf(t, "pam_authenticate") = 0
                                   /\ (Called(calls[t], "pam_acct_mgmt") =>
                                         ReturnOf(t, "pam_acct_mgmt") = 0))
              /\ (Finished(t) \/ pc[t] = "teardown") =>
                    /\ retval[t] = LastPhaseReturn(t)
                    /\ code = retval[t]

\* DISPLAY is empty, descriptor 0 is a terminal, pam_set_item failed, and
\* the call went on to a pam_authenticate and a pam_acct_mgmt that returned 0
C15_Witness ==
    \E t \in Threads :
        /\ pc[t] = "teardown"
        /\ environ[t].DISPLAY = [set |-> TRUE, v |-> <<>>]
        /\ environ[t].isatty
        /\ \E i \in Entries(calls[t], "pam_set_item") :
              calls[t][i].ret # 0 /\ calls[t][i].data = TtyName
        /\ auth_success[t] /\ code = 0

(***************************************************************************)
(* C16: within one authenticate call each of pam_start, pam_authenticate,  *)
(* pam_acct_mgmt and pam_setcred is invoked at most once, whatever the     *)
(* codes they return.                                                      *)
(***************************************************************************)
C16_NoInternalRetry ==
    \A t \in Threads :
        \A fn \in Phases : Cardinality(Entries(calls[t], fn)) <= 1

\* a call whose pam_authenticate failed has come to its end having made
\* that call once
C16_Witness ==
    \E t \in Threads :
        /\ Finished(t)
        /\ HasReturned(t, "pam_authenticate")
        /\ ReturnOf(t, "pam_authenticate") = 7
        /\ Cardinality(Entries(calls[t], "pam_authenticate")) = 1
        /\ Cardinality(Entries(calls[t], "pam_start")) = 1

(***************************************************************************)
(* C17: when calloc returns NULL for the response array or for a password  *)
(* buffer inside my_conv, the callback returns a non-zero code to the      *)
(* native stack instead of 0, without a fault, and every slot of a         *)
(* response array it hands over is either filled or empty.                 *)
(***************************************************************************)
SlotSettled(c, i) ==
    LET cell == heap[c.p_response].cells[i]
    IN  \/ cell = [resp |-> NULL, resp_retcode |-> 0]
        \/ cell.resp \in DOMAIN heap

C17_AllocationFailureReported ==
    \A t \in Threads :
        (conv[t] # NoConv /\ ~AllocationsServed(conv[t])) =>
            /\ pc[t] # "crashed"
            /\ conv[t].exc = "none"
            /\ conv[t].ret # 0
            /\ conv[t].p_response \in DOMAIN heap =>
                  \A i \in 1..Len(conv[t].styles) : SlotSettled(conv[t], i)

(***************************************************************************)
(* C18: in every invocation of my_conv, however many there are in one      *)
(* pam_authenticate, the response array and every password buffer handed   *)
(* to the native stack is the result of one calloc call of that same       *)
(* invocation and was not allocated before it, no address is handed over   *)
(* twice, and the captured password is as it was.                          *)
(***************************************************************************)
\* how many calloc calls of the log returned the address a
AllocatedTimes(log, a) ==
    Cardinality({k \in 1..Len(log) : log[k].fn = "calloc" /\ log[k].ret = a})

\* the non-NULL resp pointers in the response array of an invocation
HandedBuffers(c, H) ==
    IF c.p_response \notin DOMAIN H THEN {}
    ELSE {i \in 1..Len(H[c.p_response].cells) :
              H[c.p_response].cells[i].resp # NULL}

C18_BufferOwnership ==
    [][\A t \in Threads :
          (conv[t] = NoConv /\ conv'[t] # NoConv) =>
              /\ password'[t] = password[t]
              /\ conv'[t].p_response # NULL =>
                    /\ conv'[t].p_response \notin DOMAIN heap
                    /\ conv'[t].p_response \in DOMAIN heap'
                    /\ AllocatedTimes(conv'[t].log, conv'[t].p_response) = 1
              /\ \A i \in HandedBuffers(conv'[t], heap') :
                    LET cells == heap'[conv'[t].p_response].cells
                    IN  /\ cells[i].resp \notin DOMAIN heap
                        /\ cells[i].resp \in DOMAIN heap'
                        /\ cells[i].resp # conv'[t].p_response
                        /\ AllocatedTimes(conv'[t].log, cells[i].resp) = 1
                        /\ \A j \in HandedBuffers(conv'[t], heap') :
                              j # i => cells[j].resp # cells[i].resp
    ]_vars

\* an invocation on two echo-off prompts has handed over an array and two
\* password buffers, three allocations at three addresses
C18_Witness ==
    \E t \in Threads :
        /\ conv[t] # NoConv /\ conv[t].exc = "none"
        /\ conv[t].styles = <<PAM_PROMPT_ECHO_OFF, PAM_PROMPT_ECHO_OFF>>
        /\ Len(password[t]) > 0
        /\ HandedBuffers(conv[t], heap) = {1, 2}
        /\ Cardinality({conv[t].log[k].ret : k \in 1..Len(conv[t].log)}) = 3

(***************************************************************************)
(* C19: when a call on the object has come to its end, by the NUL          *)
(* rejection, the pam_start failure or the phase sequence, the stored code *)
(* and reason are both the ones of that call, whatever earlier calls left  *)
(* there.                                                                  *)
(***************************************************************************)
ExpectedCode(t) == IF NulInArgs(t) THEN PAM_SYSTEM_ERR ELSE retval[t]

ExpectedReasons(t) ==
    IF NulInArgs(t) THEN {Literal("strings may not contain NUL")}
    ELSE IF ReturnOf(t, "pam_start") # 0 THEN {Literal("pam_start() failed")}
    ELSE ResolvedReason(retval[t], encoding[t])

InSession(t) == handle[t] # 0 /\ pc[t] \notin {"idle", "done"}

\* every password buffer the callback of t hands over holds password[t]
AnswersOwnPassword(t) ==
    \A i \in HandedBuffers(conv[t], heap) :
        LET buf == heap[heap[conv[t].p_response].cells[i].resp].bytes
        IN  SubSeq(buf, 1, Len(buf) - 1) = password[t]

C12_NoSharedMutableState ==
    [][\A t, u \in Threads :
          /\ (t # u /\ InSession(t)' /\ InSession(u)') =>
                handle'[t] # handle'[u]
          /\ AnswersOwnPassword(t)'
          /\ (pc[t] # "done" /\ pc'[t] = "done") =>
                /\ code' = ExpectedCode(t)'
                /\ reason' \in ExpectedReasons(t)'
    ]_vars

====
